---- MODULE Spec2Model ----
(***************************************************************************)
(* Model of the ted evaluation binary (binaries/ted.cpp).                  *)
(*                                                                         *)
(* Spec models main(): one run of the binary is a walk through the         *)
(* statements of main, every request to the ErrorReport process node and   *)
(* every volume read being allowed to throw.  Several runs follow each     *)
(* other; the plot file is the only state that survives a run.             *)
(***************************************************************************)
EXTENDS Integers, Sequences, FiniteSets, TLC

(***************************************************************************)
(* Bounds of the model.                                                    *)
(***************************************************************************)
MaxRuns == 2

(***************************************************************************)
(* Labels.  They are floats in the binary (foreach (float gtLabel, ...));  *)
(* the large one is there because operator<< prints a float with six       *)
(* significant digits.                                                     *)
(***************************************************************************)
GtLabels  == {1, 1000001}
RecLabels == {2, 1000003}

VARIABLES
    run,            \* number of the current run of the binary
    pc,             \* position of the current run in main()
    options,        \* the program options of the current run (set / not set)
    plotFile,       \* content of the file named by optionPlotFile (survives runs)
    plotMark,       \* Len(plotFile) when the current run started
    requested,      \* sequence of outputs requested from the ErrorReport node
    inputs,         \* inputs set on the ErrorReport node
    stacksRead,     \* volumes read by readImageStackFromOption
    extractInput,   \* input of the ExtractGroundTruthLabels node
    exported,       \* what the "groundtruth" ImageStackDirectoryWriter wrote
    corrected,      \* what the corrected-reconstruction writer wrote
    userLog,        \* what LOG_USER(out) printed
    errors,         \* the TolerantEditDistanceErrors value obtained
    errorFiles,     \* the .data files written by this run
    thrown,         \* the exception that left the statement it was raised by: [at, kind]
    noSuchOutput,   \* NoSuchOutput was caught by the handler of line 234
    handled,        \* handleException was called (line 284)
    steps,          \* statements of main executed by this run, in order
    evaluation      \* the evaluation of one volume pair by the core

vars == <<run, pc, options, plotFile, plotMark, requested, inputs, stacksRead,
          extractInput, exported, corrected, userLog, errors, errorFiles,
          thrown, noSuchOutput, handled, steps, evaluation>>

\* the state of the binary
mainVars == <<run, pc, options, plotFile, plotMark, requested, inputs,
              stacksRead, extractInput, exported, corrected, userLog, errors,
              errorFiles, thrown, noSuchOutput, handled, steps>>

OptionNames == {"plotFileHeader", "plotFile", "extractGroundTruthLabels",
                "exportGroundTruth", "tedErrorFiles"}

Options == [OptionNames -> BOOLEAN]

NoException == [at |-> "none", kind |-> "none"]

NotWritten == <<"not written">>

\* no volume pair is being evaluated
NoEvaluation == [phase |-> "none"]

NoErrors == [splits |-> <<>>, merges |-> <<>>, falsePositives |-> {},
             falseNegatives |-> {}, hasBackgroundLabel |-> FALSE, valid |-> FALSE]

FileTypes == {"splits", "merges", "fps", "fns"}

\* state of a process right after exec, before main's first statement
FreshRun(o) ==
    /\ pc = "init"
    /\ options = o
    /\ requested = <<>>
    /\ inputs = [reconstruction |-> "unset", groundTruth |-> "unset"]
    /\ stacksRead = {}
    /\ extractInput = "unset"
    /\ exported = "nothing"
    /\ corrected = "nothing"
    /\ userLog = <<>>
    /\ errors = NoErrors
    /\ errorFiles = [t \in FileTypes |-> NotWritten]
    /\ thrown = NoException
    /\ noSuchOutput = FALSE
    /\ handled = FALSE
    /\ steps = <<>>

Init ==
    /\ run = 1
    /\ plotFile = <<>>
    /\ plotMark = 0
    /\ evaluation = NoEvaluation
    /\ \E o \in Options : FreshRun(o)

(***************************************************************************)
(* Text written by operator<<.                                             *)
(***************************************************************************)
TAB == "\t"

\* n / d rounded to the nearest integer, ties to even
RoundHalfEven(n, d) ==
    LET q == n \div d
        r == n % d
    IN  IF 2 * r < d THEN q
        ELSE IF 2 * r > d THEN q + 1
        ELSE IF q % 2 = 0 THEN q ELSE q + 1

\* operator<<(float) with the default precision of 6: up to six digits are
\* printed as they are, a seven digit value is printed as d.ddddde+06
FormatLabel(l) ==
    IF l < 1000000 THEN <<"fixed", l>>
    ELSE <<"scientific", RoundHalfEven(l, 10), 6>>

\* the elements of a set of labels in the order foreach visits them
RECURSIVE InOrder(_)
InOrder(S) ==
    IF S = {} THEN <<>>
    ELSE LET m == CHOOSE x \in S : \A y \in S : x <= y
         IN  <<m>> \o InOrder(S \ {m})

RECURSIVE Flatten(_)
Flatten(ss) == IF ss = <<>> THEN <<>> ELSE Head(ss) \o Flatten(Tail(ss))

\* lines 250-253 with the inner loop stopping after the first partner
ListingLineFirstOnly(label, partners) ==
    <<FormatLabel(label), TAB>>
        \o (IF partners = {} THEN <<>>
            ELSE <<FormatLabel(InOrder(partners)[1]), TAB>>)

\* splitFile << gtLabel << "\t"; foreach recLabel: splitFile << recLabel << "\t"
ListingLine(label, partners) ==
    <<FormatLabel(label), TAB>>
        \o Flatten([i \in 1..Len(InOrder(partners)) |->
                        <<FormatLabel(InOrder(partners)[i]), TAB>>])

\* one line per key of the map, the key followed by its partners
MapListing(map) ==
    [i \in 1..Len(InOrder(DOMAIN map)) |->
        ListingLine(InOrder(DOMAIN map)[i], map[InOrder(DOMAIN map)[i]])]

\* fpFile << recLabel << std::endl for every label of the set
SetListing(S) == [i \in 1..Len(InOrder(S)) |-> <<FormatLabel(InOrder(S)[i])>>]

(***************************************************************************)
(* The values the "ted errors" output of the ErrorReport node can carry.   *)
(***************************************************************************)
PartnerMaps(keys, partners) ==
    UNION {[D -> (SUBSET partners) \ {{}}] : D \in SUBSET keys}

\* errors of the ground truth side only, or of the reconstruction side only
TedErrors ==
    [splits : PartnerMaps(GtLabels, RecLabels),
     merges : {<<>>},
     falsePositives : {{}},
     falseNegatives : SUBSET GtLabels,
     hasBackgroundLabel : BOOLEAN,
     valid : {TRUE}]
    \cup
    [splits : {<<>>},
     merges : PartnerMaps(RecLabels, GtLabels),
     falsePositives : SUBSET RecLabels,
     falseNegatives : {{}},
     hasBackgroundLabel : BOOLEAN,
     valid : {TRUE}]

getSplitLabels(e) == DOMAIN e.splits
getSplits(e, gtLabel) == e.splits[gtLabel]
getMergeLabels(e) == DOMAIN e.merges
getMerges(e, recLabel) == e.merges[recLabel]

(***************************************************************************)
(* main()                                                                  *)
(***************************************************************************)
Throw(at, kind) ==
    /\ thrown' = [at |-> at, kind |-> kind]
    /\ pc' = "catch"

Step(name) == steps' = Append(steps, name)

\* lines 164-185: options, logger, ErrorReport::Parameters, the report node
Setup ==
    /\ pc = "init"
    /\ pc' = IF options["plotFileHeader"] THEN "header" ELSE "readGroundTruth"
    /\ Step("setup")
    /\ UNCHANGED <<evaluation, run, options, plotFile, plotMark, requested, inputs,
                   stacksRead, extractInput, exported, corrected, userLog,
                   errors, errorFiles, thrown, noSuchOutput, handled>>

\* lines 187-194 without the return of line 193
WriteHeaderFallThrough ==
    /\ pc = "header"
    /\ Step("header")
    /\ requested' = Append(requested, "error report header")
    /\ \E ok \in BOOLEAN :
        IF ok
        THEN /\ plotFile' = IF options["plotFile"]
                            THEN Append(plotFile, [run |-> run, text |-> "error report header"])
                            ELSE plotFile
             /\ pc' = "readGroundTruth"
             /\ UNCHANGED thrown
        ELSE /\ Throw("header", "Exception")
             /\ UNCHANGED plotFile
    /\ UNCHANGED <<evaluation, run, options, plotMark, inputs, stacksRead, extractInput,
                   exported, corrected, userLog, errors, errorFiles,
                   noSuchOutput, handled>>

\* lines 187-194: the stream is opened on optionPlotFile.as<std::string>()
\* whether or not the option is set; without a plot file there is no file
\* the line could reach
WriteHeader ==
    /\ pc = "header"
    /\ Step("header")
    /\ requested' = Append(requested, "error report header")
    /\ \E ok \in BOOLEAN :
        IF ok
        THEN /\ plotFile' = IF options["plotFile"]
                            THEN Append(plotFile, [run |-> run, text |-> "error report header"])
                            ELSE plotFile
             /\ pc' = "done"
             /\ UNCHANGED thrown
        ELSE /\ Throw("header", "Exception")
             /\ UNCHANGED plotFile
    /\ UNCHANGED <<evaluation, run, options, plotMark, inputs, stacksRead, extractInput,
                   exported, corrected, userLog, errors, errorFiles, noSuchOutput, handled>>

\* lines 105-153, called from lines 201 and 202: the HDF5 branch and the
\* directory branch both either fill the stack or throw (UsageError in a
\* build without HDF5, an error of the reader otherwise)
readImageStackFromOption(stack, at, next) ==
    /\ Step(at)
    /\ \E ok \in BOOLEAN :
        IF ok
        THEN /\ stacksRead' = stacksRead \cup {stack}
             /\ pc' = next
             /\ UNCHANGED thrown
        ELSE /\ Throw(at, "Exception")
             /\ UNCHANGED stacksRead
    /\ UNCHANGED <<evaluation, run, options, plotFile, plotMark, requested, inputs,
                   extractInput, exported, corrected, userLog, errors,
                   errorFiles, noSuchOutput, handled>>

\* line 201
ReadGroundTruth ==
    /\ pc = "readGroundTruth"
    /\ readImageStackFromOption("groundTruth", "readGroundTruth", "readReconstruction")

\* line 202
ReadReconstruction ==
    /\ pc = "readReconstruction"
    /\ readImageStackFromOption("reconstruction", "readReconstruction", "setInputs")

\* lines 204-224 with line 223 executed on both branches
SetInputsRaw ==
    /\ pc = "setInputs"
    /\ Step("setInputs")
    /\ inputs' = [reconstruction |-> "reconstruction", groundTruth |-> "groundTruth"]
    /\ IF options["extractGroundTruthLabels"]
       THEN /\ extractInput' = "groundTruth"
            /\ IF options["exportGroundTruth"]
               THEN \E ok \in BOOLEAN :
                     IF ok
                     THEN /\ exported' = "extractLabels(groundTruth)"
                          /\ pc' = "saveCorrected"
                          /\ UNCHANGED thrown
                     ELSE /\ Throw("setInputs", "Exception")
                          /\ UNCHANGED exported
               ELSE /\ pc' = "saveCorrected"
                    /\ UNCHANGED <<exported, thrown>>
       ELSE /\ pc' = "saveCorrected"
            /\ UNCHANGED <<extractInput, exported, thrown>>
    /\ UNCHANGED <<evaluation, run, options, plotFile, plotMark, requested, stacksRead,
                   corrected, userLog, errors, errorFiles, noSuchOutput, handled>>

\* lines 204-224
SetInputs ==
    /\ pc = "setInputs"
    /\ Step("setInputs")
    /\ IF options["extractGroundTruthLabels"]
       THEN /\ extractInput' = "groundTruth"
            /\ inputs' = [reconstruction |-> "reconstruction",
                          groundTruth |-> "extractLabels(groundTruth)"]
            /\ IF options["exportGroundTruth"]
               THEN \E ok \in BOOLEAN :
                     IF ok
                     THEN /\ exported' = "extractLabels(groundTruth)"
                          /\ pc' = "saveCorrected"
                          /\ UNCHANGED thrown
                     ELSE /\ Throw("setInputs", "Exception")
                          /\ UNCHANGED exported
               ELSE /\ pc' = "saveCorrected"
                    /\ UNCHANGED <<exported, thrown>>
       ELSE /\ inputs' = [reconstruction |-> "reconstruction",
                          groundTruth |-> "groundTruth"]
            /\ pc' = "saveCorrected"
            /\ UNCHANGED <<extractInput, exported, thrown>>
    /\ UNCHANGED <<evaluation, run, options, plotFile, plotMark, requested, stacksRead,
                   corrected, userLog, errors, errorFiles, noSuchOutput, handled>>

\* lines 226-237 without the handler of line 234
SaveCorrectedUncaught ==
    /\ pc = "saveCorrected"
    /\ Step("saveCorrected")
    /\ requested' = Append(requested, "ted corrected reconstruction")
    /\ \E outcome \in {"ok", "NoSuchOutput", "Exception"} :
        IF outcome = "ok"
        THEN /\ corrected' = "ted corrected reconstruction"
             /\ pc' = "writeReport"
             /\ UNCHANGED <<thrown, noSuchOutput>>
        ELSE /\ Throw("saveCorrected", outcome)
             /\ UNCHANGED <<corrected, noSuchOutput>>
    /\ UNCHANGED <<evaluation, run, options, plotFile, plotMark, inputs, stacksRead,
                   extractInput, exported, userLog, errors, errorFiles, handled>>

\* lines 226-237
SaveCorrected ==
    /\ pc = "saveCorrected"
    /\ Step("saveCorrected")
    /\ requested' = Append(requested, "ted corrected reconstruction")
    /\ \E outcome \in {"ok", "NoSuchOutput", "Exception"} :
        CASE outcome = "ok" ->
                /\ corrected' = "ted corrected reconstruction"
                /\ pc' = "writeReport"
                /\ UNCHANGED <<thrown, noSuchOutput>>
          [] outcome = "NoSuchOutput" ->
                /\ noSuchOutput' = TRUE
                /\ pc' = "writeReport"
                /\ UNCHANGED <<corrected, thrown>>
          [] outcome = "Exception" ->
                /\ Throw("saveCorrected", "Exception")
                /\ UNCHANGED <<corrected, noSuchOutput>>
    /\ UNCHANGED <<evaluation, run, options, plotFile, plotMark, inputs, stacksRead,
                   extractInput, exported, userLog, errors, errorFiles, handled>>

\* lines 239-241 with the exception swallowed the way line 234 swallows one
WriteReportSwallowed ==
    /\ pc = "writeReport"
    /\ Step("writeReport")
    /\ requested' = Append(requested, "human readable error report")
    /\ \E ok \in BOOLEAN :
        IF ok
        THEN /\ userLog' = Append(userLog, "human readable error report")
             /\ UNCHANGED thrown
        ELSE /\ thrown' = [at |-> "writeReport", kind |-> "Exception"]
             /\ UNCHANGED userLog
    /\ pc' = "writeErrorFiles"
    /\ UNCHANGED <<evaluation, run, options, plotFile, plotMark, inputs, stacksRead,
                   extractInput, exported, corrected, errors, errorFiles,
                   noSuchOutput, handled>>

\* lines 239-241
WriteReport ==
    /\ pc = "writeReport"
    /\ Step("writeReport")
    /\ requested' = Append(requested, "human readable error report")
    /\ \E ok \in BOOLEAN :
        IF ok
        THEN /\ userLog' = Append(userLog, "human readable error report")
             /\ pc' = "writeErrorFiles"
             /\ UNCHANGED thrown
        ELSE /\ Throw("writeReport", "Exception")
             /\ UNCHANGED userLog
    /\ UNCHANGED <<evaluation, run, options, plotFile, plotMark, inputs, stacksRead,
                   extractInput, exported, corrected, errors, errorFiles, noSuchOutput, handled>>

\* lines 248-270 without the test of line 263
ErrorListingsUnguarded(e) ==
    [t \in FileTypes |->
        CASE t = "splits" -> MapListing(e.splits)
          [] t = "merges" -> MapListing(e.merges)
          [] t = "fps" -> SetListing(e.falsePositives)
          [] t = "fns" -> SetListing(e.falseNegatives)]

\* lines 248-270: the files written for the TolerantEditDistanceErrors e
ErrorListings(e) ==
    [t \in FileTypes |->
        CASE t = "splits" -> MapListing(e.splits)
          [] t = "merges" -> MapListing(e.merges)
          [] t = "fps" -> IF e.hasBackgroundLabel
                          THEN SetListing(e.falsePositives) ELSE NotWritten
          [] t = "fns" -> IF e.hasBackgroundLabel
                          THEN SetListing(e.falseNegatives) ELSE NotWritten]

\* lines 243-271
WriteErrorFiles ==
    /\ pc = "writeErrorFiles"
    /\ Step("writeErrorFiles")
    /\ IF options["tedErrorFiles"]
       THEN /\ requested' = Append(requested, "ted errors")
            /\ \/ \E e \in TedErrors :
                    /\ errors' = e
                    /\ errorFiles' = ErrorListings(e)
                    /\ pc' = "writePlotLine"
                    /\ UNCHANGED thrown
               \/ /\ Throw("writeErrorFiles", "Exception")
                  /\ UNCHANGED <<errors, errorFiles>>
       ELSE /\ pc' = "writePlotLine"
            /\ UNCHANGED <<requested, errors, errorFiles, thrown>>
    /\ UNCHANGED <<evaluation, run, options, plotFile, plotMark, inputs, stacksRead,
                   extractInput, exported, corrected, userLog, noSuchOutput, handled>>

\* lines 273-280 with the stream opened without std::ofstream::app
WritePlotLineTruncating ==
    /\ pc = "writePlotLine"
    /\ Step("writePlotLine")
    /\ IF options["plotFile"]
       THEN /\ requested' = Append(requested, "error report")
            /\ \E ok \in BOOLEAN :
                IF ok
                THEN /\ plotFile' = <<[run |-> run, text |-> "error report"]>>
                     /\ pc' = "done"
                     /\ UNCHANGED thrown
                ELSE /\ Throw("writePlotLine", "Exception")
                     /\ plotFile' = <<>>
       ELSE /\ pc' = "done"
            /\ UNCHANGED <<requested, plotFile, thrown>>
    /\ UNCHANGED <<evaluation, run, options, plotMark, inputs, stacksRead, extractInput,
                   exported, corrected, userLog, errors, errorFiles,
                   noSuchOutput, handled>>

\* lines 273-280
WritePlotLine ==
    /\ pc = "writePlotLine"
    /\ Step("writePlotLine")
    /\ IF options["plotFile"]
       THEN /\ requested' = Append(requested, "error report")
            /\ \E ok \in BOOLEAN :
                IF ok
                THEN /\ plotFile' = Append(plotFile, [run |-> run, text |-> "error report"])
                     /\ pc' = "done"
                     /\ UNCHANGED thrown
                ELSE /\ Throw("writePlotLine", "Exception")
                     /\ UNCHANGED plotFile
       ELSE /\ pc' = "done"
            /\ UNCHANGED <<requested, plotFile, thrown>>
    /\ UNCHANGED <<evaluation, run, options, plotMark, inputs, stacksRead, extractInput,
                   exported, corrected, userLog, errors, errorFiles, noSuchOutput, handled>>

\* lines 282-285
HandleException ==
    /\ pc = "catch"
    /\ Step("handleException")
    /\ handled' = TRUE
    /\ pc' = "done"
    /\ UNCHANGED <<evaluation, run, options, plotFile, plotMark, requested, inputs,
                   stacksRead, extractInput, exported, corrected, userLog,
                   errors, errorFiles, thrown, noSuchOutput>>

\* the binary is started again, on the plot file the earlier runs left
NextRun ==
    /\ pc = "done"
    /\ run < MaxRuns
    /\ run' = run + 1
    /\ plotMark' = Len(plotFile)
    /\ UNCHANGED <<plotFile, evaluation>>
    /\ \E o \in Options :
        /\ pc' = "init"
        /\ options' = o
        /\ requested' = <<>>
        /\ inputs' = [reconstruction |-> "unset", groundTruth |-> "unset"]
        /\ stacksRead' = {}
        /\ extractInput' = "unset"
        /\ exported' = "nothing"
        /\ corrected' = "nothing"
        /\ userLog' = <<>>
        /\ errors' = NoErrors
        /\ errorFiles' = [t \in FileTypes |-> NotWritten]
        /\ thrown' = NoException
        /\ noSuchOutput' = FALSE
        /\ handled' = FALSE
        /\ steps' = <<>>

Next ==
    \/ Setup
    \/ WriteHeader
    \/ ReadGroundTruth
    \/ ReadReconstruction
    \/ SetInputs
    \/ SaveCorrected
    \/ WriteReport
    \/ WriteErrorFiles
    \/ WritePlotLine
    \/ HandleException
    \/ NextRun

Spec == Init /\ [][Next]_vars

(***************************************************************************)
(* The core behind the ErrorReport node: CorrespondenceBuilder and         *)
(* ErrorClassifier.  SpecTed evaluates one volume pair under a growing     *)
(* tolerance radius.                                                       *)
(***************************************************************************)
Width == 2
Height == 2
Depth == 1
MaxLabel == 2
MaxTolerance == 2

Background == 0

VolumeLabels == 0..MaxLabel

Voxels == (1..Width) \X (1..Height) \X (1..Depth)

LabelVolumes == [Voxels -> VolumeLabels]

\* the minimum fraction of the region size, as <<numerator, denominator>>
MinFractions == {<<1, 4>>, <<1, 2>>}

SquaredDistance(u, v) ==
    (u[1] - v[1]) * (u[1] - v[1]) + (u[2] - v[2]) * (u[2] - v[2])
        + (u[3] - v[3]) * (u[3] - v[3])

RegionSize(volume, label) == Cardinality({v \in Voxels : volume[v] = label})

LabelsOf(volume) == {volume[v] : v \in Voxels}

\* co-occurrence count of the pair
ExactOverlap(gt, rec, g, r) ==
    Cardinality({v \in Voxels : gt[v] = g /\ rec[v] = r})

\* the region of g dilated by the tolerance radius
DilatedMask(gt, g, radius) ==
    {v \in Voxels : \E u \in Voxels :
        gt[u] = g /\ SquaredDistance(u, v) <= radius * radius}

\* voxels of reconstruction label r inside the dilated mask of g
TolerantOverlap(gt, rec, g, r, radius) ==
    Cardinality({v \in DilatedMask(gt, g, radius) : rec[v] = r})

\* the bipartite overlap graph: one OverlapEntry per pair with at least one
\* voxel of overlap within tolerance
CorrespondenceBuilder(gt, rec, radius) ==
    {[gtLabel |-> g, recLabel |-> r,
      overlap |-> TolerantOverlap(gt, rec, g, r, radius),
      exact |-> ExactOverlap(gt, rec, g, r)] :
        <<g, r>> \in {p \in LabelsOf(gt) \X LabelsOf(rec) :
                        TolerantOverlap(gt, rec, p[1], p[2], radius) >= 1}}

\* the overlap reaches the minimum fraction of the region size
Substantial(overlap, size, fraction) == overlap * fraction[2] >= fraction[1] * size

RecPartners(graph, gtSize, fraction, g) ==
    {e.recLabel : e \in {x \in graph :
        x.gtLabel = g /\ Substantial(x.overlap, gtSize[g], fraction)}}

GtPartners(graph, recSize, fraction, r) ==
    {e.gtLabel : e \in {x \in graph :
        x.recLabel = r /\ Substantial(x.overlap, recSize[r], fraction)}}

\* the classification of every region of nonzero size; the background label
\* is reserved and is no region
ErrorClassifier(graph, gtSize, recSize, fraction, background) ==
    LET gtRegions == {g \in DOMAIN gtSize : gtSize[g] > 0 /\ g # Background}
        recRegions == {r \in DOMAIN recSize : recSize[r] > 0 /\ r # Background}
        P(g) == RecPartners(graph, gtSize, fraction, g)
        Q(r) == GtPartners(graph, recSize, fraction, r)
        splitLabels == {g \in gtRegions : Cardinality(P(g)) > 1}
        mergeLabels == {r \in recRegions : Cardinality(Q(r)) > 1}
    IN  [splits |-> [g \in splitLabels |-> P(g)],
         merges |-> [r \in mergeLabels |-> Q(r)],
         falsePositives |->
            IF background THEN {r \in recRegions : Q(r) = {Background}} ELSE {},
         falseNegatives |->
            IF background THEN {g \in gtRegions : P(g) = {Background}} ELSE {},
         hasBackgroundLabel |-> background,
         matchedGt |-> {g \in gtRegions :
                            Cardinality(P(g)) = 1 /\ P(g) # {Background}},
         matchedRec |-> {r \in recRegions :
                            Cardinality(Q(r)) = 1 /\ Q(r) # {Background}}]

NoGraph == {}

NotClassified == [classified |-> FALSE]

Evaluations ==
    [phase : {"volumes"}, gt : LabelVolumes, rec : LabelVolumes,
     radius : {0}, fraction : MinFractions, background : BOOLEAN,
     graph : {NoGraph}, errors : {NotClassified}, previous : {NotClassified}]

TedInit ==
    /\ run = 1
    /\ plotFile = <<>>
    /\ plotMark = 0
    /\ FreshRun([o \in OptionNames |-> FALSE])
    /\ evaluation \in Evaluations

\* section 4.1
BuildGraph ==
    /\ evaluation.phase = "volumes"
    /\ evaluation' =
        [evaluation EXCEPT
            !.phase = "graph",
            !.graph = CorrespondenceBuilder(evaluation.gt, evaluation.rec,
                                            evaluation.radius)]
    /\ UNCHANGED mainVars

\* section 4.2
ClassifyErrors ==
    /\ evaluation.phase = "graph"
    /\ evaluation' =
        [evaluation EXCEPT
            !.phase = "classified",
            !.errors =
                ErrorClassifier(
                    evaluation.graph,
                    [l \in VolumeLabels |-> RegionSize(evaluation.gt, l)],
                    [l \in VolumeLabels |-> RegionSize(evaluation.rec, l)],
                    evaluation.fraction, evaluation.background)]
    /\ UNCHANGED mainVars

\* the same volume pair is evaluated again with the radius one voxel larger
RaiseTolerance ==
    /\ evaluation.phase = "classified"
    /\ evaluation.radius < MaxTolerance
    /\ evaluation' =
        [evaluation EXCEPT
            !.phase = "volumes",
            !.radius = evaluation.radius + 1,
            !.graph = NoGraph,
            !.errors = NotClassified,
            !.previous = evaluation.errors]
    /\ UNCHANGED mainVars

TedNext ==
    \/ BuildGraph
    \/ ClassifyErrors
    \/ RaiseTolerance

SpecTed == TedInit /\ [][TedNext]_vars

(***************************************************************************)
(* Properties of main()                                                    *)
(***************************************************************************)
LinesOfThisRun == SubSeq(plotFile, plotMark + 1, Len(plotFile))

NothingListed == \A t \in FileTypes : errorFiles[t] = NotWritten

\* the run got past the statement without an exception leaving it
Passed(step) ==
    /\ \E i \in 1..Len(steps) : steps[i] = step
    /\ thrown.at # step

Completed == pc = "done" /\ thrown = NoException

\* C2: a NoSuchOutput raised by the request for "ted corrected
\* reconstruction" is caught where it is raised: nothing is written for the
\* corrected volume, the next statement executed is the request for the
\* human readable report, the outer handler is never entered on behalf of
\* it, and a run that meets no other exception emits the report, the error
\* files if tedErrorFiles is set and the plot line if plotFile is set.
C2_MissingOutputRecoverable ==
    /\ thrown.kind # "NoSuchOutput"
    /\ noSuchOutput =>
        /\ corrected = "nothing"
        /\ thrown.at # "saveCorrected"
        /\ pc # "saveCorrected"
        /\ \A i \in 1..Len(steps) :
            (steps[i] = "saveCorrected" /\ i < Len(steps))
                => steps[i + 1] = "writeReport"
        /\ (pc = "catch" \/ handled) =>
                thrown.at \in {"writeReport", "writeErrorFiles", "writePlotLine"}
        /\ Completed =>
            /\ userLog = <<"human readable error report">>
            /\ options["tedErrorFiles"] =>
                    (errorFiles["splits"] # NotWritten /\ errorFiles["merges"] # NotWritten)
            /\ options["plotFile"] =>
                    LinesOfThisRun = <<[run |-> run, text |-> "error report"]>>

C2_Witness ==
    /\ noSuchOutput
    /\ Completed
    /\ options["tedErrorFiles"]
    /\ options["plotFile"]
    /\ userLog # <<>>

\* C3: a run with plotFileHeader set requests nothing but "error report
\* header", reads no volume, sets no input of the report, extracts nothing,
\* does not try the corrected reconstruction, prints no report, writes no
\* error file and no value line, and ends right after the header statement.
C3_HeaderOnlyRun ==
    options["plotFileHeader"] =>
        /\ requested \in {<<>>, <<"error report header">>}
        /\ stacksRead = {}
        /\ inputs = [reconstruction |-> "unset", groundTruth |-> "unset"]
        /\ extractInput = "unset"
        /\ exported = "nothing"
        /\ corrected = "nothing"
        /\ userLog = <<>>
        /\ NothingListed
        /\ \A i \in 1..Len(LinesOfThisRun) : LinesOfThisRun[i].text # "error report"
        /\ \A i \in 1..Len(steps) : steps[i] \in {"setup", "header", "handleException"}
        /\ Passed("header") =>
            /\ pc = "done"
            /\ options["plotFile"] =>
                    LinesOfThisRun = <<[run |-> run, text |-> "error report header"]>>

C3_Witness ==
    /\ options["plotFileHeader"]
    /\ options["plotFile"]
    /\ options["tedErrorFiles"]
    /\ options["extractGroundTruthLabels"]
    /\ Completed
    /\ LinesOfThisRun = <<[run |-> run, text |-> "error report header"]>>

\* the statements of a run in the order main executes them
StatementOrder ==
    <<"setup", "header", "readGroundTruth", "readReconstruction", "setInputs",
      "saveCorrected", "writeReport", "writeErrorFiles", "writePlotLine">>

Position(step) == CHOOSE i \in 1..Len(StatementOrder) : StatementOrder[i] = step

\* C4: once an exception has left a statement of main, no later statement
\* executes (only handleException follows), and whatever the statements from
\* the failing one on would have produced is absent: the human readable
\* report, the error files, the line in the plot file.
C4_FatalErrorStopsRun ==
    thrown # NoException =>
        /\ pc \in {"catch", "done"}
        /\ \A i \in 1..Len(steps) :
            steps[i] = thrown.at =>
                \A j \in (i + 1)..Len(steps) : steps[j] = "handleException"
        /\ \A i \in 1..Len(steps) :
            steps[i] # "handleException" => Position(steps[i]) <= Position(thrown.at)
        /\ Position(thrown.at) <= Position("writeReport") => userLog = <<>>
        /\ Position(thrown.at) <= Position("writeErrorFiles") => NothingListed
        /\ LinesOfThisRun = <<>>
        /\ thrown.at = "saveCorrected" => corrected = "nothing"

C4_Witness ==
    /\ thrown.at = "writeErrorFiles"
    /\ handled
    /\ pc = "done"
    /\ options["plotFile"]
    /\ userLog # <<>>

\* C7: without a background label neither fps nor fns is written, whatever
\* the sets of false positives and false negatives hold, while splits and
\* merges are written whenever tedErrorFiles is set and the errors were
\* obtained; with a background label every false positive and every false
\* negative has its line.
C7_BackgroundGuardsFpFn ==
    /\ ~errors.valid => NothingListed
    /\ errors.valid =>
        /\ options["tedErrorFiles"]
        /\ errorFiles["splits"] # NotWritten
        /\ errorFiles["merges"] # NotWritten
        /\ ~errors.hasBackgroundLabel =>
                (errorFiles["fps"] = NotWritten /\ errorFiles["fns"] = NotWritten)
        /\ errors.hasBackgroundLabel =>
            /\ errorFiles["fps"] # NotWritten
            /\ errorFiles["fns"] # NotWritten
            /\ \A l \in errors.falsePositives :
                \E i \in 1..Len(errorFiles["fps"]) :
                    errorFiles["fps"][i] = <<FormatLabel(l)>>
            /\ \A l \in errors.falseNegatives :
                \E i \in 1..Len(errorFiles["fns"]) :
                    errorFiles["fns"][i] = <<FormatLabel(l)>>
    /\ (options["tedErrorFiles"] /\ Passed("writeErrorFiles")) => errors.valid

C7_Witness ==
    /\ errors.valid
    /\ ~errors.hasBackgroundLabel
    /\ errors.falsePositives # {}
    /\ errors.merges # <<>>
    /\ errorFiles["merges"] # NotWritten

\* the labels of a line in which every label is followed by a tab
LabelsOfLine(line) == [i \in 1..(Len(line) \div 2) |-> line[2 * i - 1]]

TabTerminated(line) ==
    /\ Len(line) % 2 = 0
    /\ \A i \in 1..(Len(line) \div 2) : line[2 * i] = TAB

\* the line lists key and then each of the partners once
IsLineOf(line, key, partners) ==
    /\ TabTerminated(line)
    /\ Len(line) = 2 * (1 + Cardinality(partners))
    /\ LabelsOfLine(line)[1] = FormatLabel(key)
    /\ \A l \in partners :
        \E i \in 2..Len(LabelsOfLine(line)) : LabelsOfLine(line)[i] = FormatLabel(l)
    /\ \A i \in 2..Len(LabelsOfLine(line)) :
        \E l \in partners : LabelsOfLine(line)[i] = FormatLabel(l)

\* the lines of the file are the lines of the keys of the map, one each
IsMapListing(file, keys, partnersOf(_)) ==
    /\ Len(file) = Cardinality(keys)
    /\ \E f \in [keys -> 1..Len(file)] :
        /\ \A k1, k2 \in keys : f[k1] = f[k2] => k1 = k2
        /\ \A k \in keys : IsLineOf(file[f[k]], k, partnersOf(k))

\* the file has one line per label of the set, the label alone
IsSetListing(file, labels) ==
    /\ Len(file) = Cardinality(labels)
    /\ \E f \in [labels -> 1..Len(file)] :
        /\ \A l1, l2 \in labels : f[l1] = f[l2] => l1 = l2
        /\ \A l \in labels : file[f[l]] = <<FormatLabel(l)>>

\* C8: splits has one line per label of getSplitLabels, the label followed
\* by the labels of getSplits(label), every label followed by a tab; merges
\* likewise from getMergeLabels and getMerges; fps and fns, when written,
\* have one line per label with the label alone.
C8_ListingContent ==
    errors.valid =>
        /\ LET S(gtLabel) == getSplits(errors, gtLabel)
           IN  IsMapListing(errorFiles["splits"], getSplitLabels(errors), S)
        /\ LET M(recLabel) == getMerges(errors, recLabel)
           IN  IsMapListing(errorFiles["merges"], getMergeLabels(errors), M)
        /\ errorFiles["fps"] # NotWritten =>
                IsSetListing(errorFiles["fps"], errors.falsePositives)
        /\ errorFiles["fns"] # NotWritten =>
                IsSetListing(errorFiles["fns"], errors.falseNegatives)

C8_Witness ==
    /\ errors.valid
    /\ errors.hasBackgroundLabel
    /\ errors.falseNegatives = GtLabels
    /\ DOMAIN errors.splits = GtLabels
    /\ \A g \in GtLabels : errors.splits[g] = RecLabels
    /\ Len(errorFiles["splits"]) = 2
    /\ Len(errorFiles["splits"][1]) = 6

\* C9: the "ground truth" input of the report is the output of the
\* extraction if extractGroundTruthLabels is set and the volume as read
\* otherwise; the reconstruction never passes through the extraction; the
\* labeled ground truth is written only if extractGroundTruthLabels and
\* exportGroundTruth are both set.
C9_ExtractionBeforeCore ==
    /\ inputs.groundTruth \in
        {"unset", IF options["extractGroundTruthLabels"]
                  THEN "extractLabels(groundTruth)" ELSE "groundTruth"}
    /\ inputs.reconstruction \in {"unset", "reconstruction"}
    /\ extractInput \in {"unset", "groundTruth"}
    /\ extractInput # "unset" => options["extractGroundTruthLabels"]
    /\ Passed("setInputs") =>
        /\ inputs.groundTruth # "unset"
        /\ inputs.reconstruction = "reconstruction"
        /\ (options["extractGroundTruthLabels"] /\ options["exportGroundTruth"])
                => exported = "extractLabels(groundTruth)"
    /\ exported # "nothing" =>
        /\ options["extractGroundTruthLabels"]
        /\ options["exportGroundTruth"]
        /\ exported = "extractLabels(groundTruth)"

C9_Witness ==
    /\ options["extractGroundTruthLabels"]
    /\ options["exportGroundTruth"]
    /\ inputs.groundTruth = "extractLabels(groundTruth)"
    /\ exported = "extractLabels(groundTruth)"
    /\ Completed

\* what a step may do to the plot file: leave it, or add one line at its end
PlotFileAppend ==
    \/ plotFile' = plotFile
    \/ /\ Len(plotFile') = Len(plotFile) + 1
       /\ SubSeq(plotFile', 1, Len(plotFile)) = plotFile
       /\ plotFile'[Len(plotFile')].text =
            (IF options["plotFileHeader"] THEN "error report header" ELSE "error report")
       /\ options["plotFile"]
       /\ ~options["plotFileHeader"] => userLog = <<"human readable error report">>

PlotFilePerRun ==
    /\ Len(LinesOfThisRun) <= 1
    /\ ~options["plotFile"] => LinesOfThisRun = <<>>
    /\ \A i \in 1..Len(LinesOfThisRun) :
        LinesOfThisRun[i] =
            [run |-> run,
             text |-> IF options["plotFileHeader"]
                      THEN "error report header" ELSE "error report"]
    /\ (Completed /\ options["plotFile"]) => Len(LinesOfThisRun) = 1
    /\ \A i, j \in 1..Len(plotFile) : i < j => plotFile[i].run < plotFile[j].run

\* C10: no step truncates or rewrites the plot file, a step adds at most one
\* line at its end; a run adds at most one line: the header line if
\* plotFileHeader is set, else the single-line report, and that only if
\* plotFile is set and after the human readable report was printed; a run
\* that ends without an exception and has plotFile set adds exactly one; the
\* lines of the file are in the order of the runs.
C10_PlotFileAppendOnly == [][PlotFileAppend]_vars /\ []PlotFilePerRun

C10_Witness ==
    /\ run = 2
    /\ Completed
    /\ Len(plotFile) = 2
    /\ plotFile[1] = [run |-> 1, text |-> "error report header"]
    /\ plotFile[2] = [run |-> 2, text |-> "error report"]

(***************************************************************************)
(* Properties of the core                                                  *)
(***************************************************************************)
Classified == evaluation.phase = "classified"

GtRegions ==
    {g \in VolumeLabels : g # Background /\ RegionSize(evaluation.gt, g) > 0}

RecRegions ==
    {r \in VolumeLabels : r # Background /\ RegionSize(evaluation.rec, r) > 0}

CategoriesOfGt(g) ==
    {c \in {"matched", "split", "false negative"} :
        \/ c = "matched" /\ g \in evaluation.errors.matchedGt
        \/ c = "split" /\ g \in DOMAIN evaluation.errors.splits
        \/ c = "false negative" /\ g \in evaluation.errors.falseNegatives}

CategoriesOfRec(r) ==
    {c \in {"matched", "merge", "false positive"} :
        \/ c = "matched" /\ r \in evaluation.errors.matchedRec
        \/ c = "merge" /\ r \in DOMAIN evaluation.errors.merges
        \/ c = "false positive" /\ r \in evaluation.errors.falsePositives}

\* C1: every ground truth region of nonzero size is in exactly one of
\* matched, split, false negative, and every reconstruction region of
\* nonzero size in exactly one of matched, merge, false positive.
C1_Partition ==
    Classified =>
        /\ \A g \in GtRegions : Cardinality(CategoriesOfGt(g)) = 1
        /\ \A r \in RecRegions : Cardinality(CategoriesOfRec(r)) = 1

\* C5: for identical volumes the classifier reports no split, no merge, no
\* false positive and no false negative, whatever the tolerance.
C5_IdentityCase ==
    (Classified /\ evaluation.gt = evaluation.rec) =>
        /\ DOMAIN evaluation.errors.splits = {}
        /\ DOMAIN evaluation.errors.merges = {}
        /\ evaluation.errors.falsePositives = {}
        /\ evaluation.errors.falseNegatives = {}

\* C6: for a fixed volume pair a larger tolerance radius reports no more
\* splits and no more merges than a smaller one.
C6_ToleranceMonotonicity ==
    (Classified /\ evaluation.previous # NotClassified) =>
        /\ Cardinality(DOMAIN evaluation.errors.splits)
                <= Cardinality(DOMAIN evaluation.previous.splits)
        /\ Cardinality(DOMAIN evaluation.errors.merges)
                <= Cardinality(DOMAIN evaluation.previous.merges)

====
